---- MODULE Spec2Model ----
(***************************************************************************)
(* Model of the browser client of the bone-reconstruction service:         *)
(*   - ApiService (src/src/services/api.ts): request() with its retry      *)
(*     loop, the operations built on it, and pollJobStatus;                *)
(*   - the Upload page and the Results page (src/src/pages/Upload.tsx).    *)
(* The backend is an opaque collaborator: every fetch may answer with any  *)
(* outcome of FetchOutcomes.  Timers are modelled by the delay they were   *)
(* scheduled with; a timer "fires" when that delay has elapsed.            *)
(***************************************************************************)
EXTENDS Integers, Sequences, FiniteSets, TLC

VARIABLES
    req,        \* the ApiService call in progress (direct calls of the API)
    trace,      \* what that call did so far: fetches, failures, waits
    poll,       \* the closure state of one pollJobStatus call
    inflight,   \* the getJobStatus requests of running poll() invocations
    timers,     \* the pending setTimeout(poll, d) timers, by their delay d
    pollHist,   \* history of the pollJobStatus call (observations only)
    upload,     \* the Upload page: React state and the running processFiles
    results,    \* the Results page: React state and the running loadResults
    apiLog,     \* the ApiService methods the pages called to load or process
    proc,       \* one ApiService.processFiles call: its upload and its stage
    backend     \* the status of the job at the backend

vars == <<req, trace, poll, inflight, timers, pollHist, upload, results, apiLog,
          proc, backend>>

apiVars == <<req, trace>>
pollVars == <<poll, inflight, timers, pollHist>>
pageVars == <<upload, results, apiLog>>
jobVars == <<proc, backend>>

----------------------------------------------------------------------------
(* Bounds of the model *)

\* request() is explored for retries in 0..MaxRetries (the default is 3)
MaxRetries == 3
\* a pollJobStatus call issues at most MaxPolls getJobStatus calls
MaxPolls == 6
\* the Upload page receives at most MaxFiles files in total
MaxFiles == 3

----------------------------------------------------------------------------
(* JavaScript values *)

Undefined == "undefined"

Null == <<>>

\* a || b on strings: the empty string and undefined are falsy
OrElse(a, b) == IF a \in {Undefined, ""} THEN b ELSE a

Min(a, b) == IF a <= b THEN a ELSE b

\* String.prototype.includes, on messages kept as sequences of fragments
Includes(message, fragment) == \E i \in 1..Len(message) : message[i] = fragment

NoError == [type |-> "none", message |-> <<>>]

NewError(message) == [type |-> "Error", message |-> message]

\* what a rejected fetch() promise can carry
FetchRejections ==
    { [type |-> "TypeError", message |-> <<"Failed to fetch">>],
      [type |-> "TypeError", message |-> <<"NetworkError", "when attempting to fetch resource.">>],
      [type |-> "TypeError", message |-> <<"net::", "ERR_NETWORK_CHANGED">>],
      [type |-> "TypeError", message |-> <<"Load failed">>],
      [type |-> "AbortError", message |-> <<"The user aborted a request.">>] }

\* the `error` field of the JSON body of a response that is not ok
HttpErrorTexts == {Undefined, "Job not found", "Failed to fetch"}

NoBody == [kind |-> "none", status |-> "", error |-> Undefined, results |-> FALSE]

\* JobStatus (status, error, results; the other fields decide nothing)
JobStatuses ==
    [kind : {"JobStatus"},
     status : {"queued", "processing", "completed", "error"},
     error : {Undefined, "", "Segmentation failed"},
     results : BOOLEAN]

\* the JSON body of any other successful response
DataBody == [kind |-> "Data", status |-> "", error |-> Undefined, results |-> FALSE]

Operations ==
    {"healthCheck", "uploadFiles", "getJobStatus", "getJobResults",
     "downloadResultFile", "listJobs", "deleteJob"}

\* AnalysisResults (total_slices, processing_time; the other fields are
\* shown the same way); a field the body lacks is Null or Undefined
AnalysisResults ==
    [kind : {"AnalysisResults"},
     total_slices : {Null, <<0>>, <<100>>},
     processing_time : {Undefined, "3.2s"}]

Bodies(op) ==
    IF op = "getJobStatus" THEN JobStatuses
    ELSE IF op = "getJobResults" THEN AnalysisResults
    ELSE {DataBody}

\* outcomes of one fetch(): a response that is ok (whose body parses or
\* not), a response that is not ok, or a rejection
FetchOutcomes(op) ==
    [kind : {"ok"}, body : Bodies(op), text : {Undefined}, error : {NoError}]
    \cup [kind : {"badjson"}, body : {NoBody}, text : {Undefined}, error : {NoError}]
    \cup [kind : {"http"}, body : {NoBody}, text : HttpErrorTexts, error : {NoError}]
    \cup [kind : {"reject"}, body : {NoBody}, text : {Undefined}, error : FetchRejections]

----------------------------------------------------------------------------
(* ApiService.request *)

\* IsNetworkError without the `instanceof TypeError` test
IsNetworkErrorAnyType(error) ==
    \/ Includes(error.message, "Failed to fetch")
    \/ Includes(error.message, "NetworkError")
    \/ Includes(error.message, "ERR_NETWORK_CHANGED")

\* api.ts:87-90
IsNetworkError(error) ==
    /\ error.type = "TypeError"
    /\ \/ Includes(error.message, "Failed to fetch")
       \/ Includes(error.message, "NetworkError")
       \/ Includes(error.message, "ERR_NETWORK_CHANGED")

\* BackoffDelay growing linearly: 1s, 2s, 3s
BackoffDelayLinear(attempt) == (attempt + 1) * 1000

\* api.ts:94
BackoffDelay(attempt) == (2 ^ attempt) * 1000

\* api.ts:82, 138, 169: the Error built for a response that is not ok
HttpError(text, fallback) == NewError(<<OrElse(text, fallback)>>)

\* the error a failed fetch raises inside the try block, if any
RaisedError(o, fallback) ==
    IF o.kind = "http" THEN HttpError(o.text, fallback) ELSE o.error

NoCall ==
    [op |-> "none", viaRequest |-> FALSE, retries |-> 0, attempt |-> 0,
     phase |-> "idle", delay |-> 0, value |-> NoBody, error |-> NoError]

\* the loop head of request(): attempt <= retries issues the fetch, and the
\* loop falling through throws 'Max retries exceeded' (api.ts:70, 104)
RequestLoop(r) ==
    IF r.attempt <= r.retries
    THEN [r EXCEPT !.phase = "fetch", !.delay = 0]
    ELSE [r EXCEPT !.phase = "thrown", !.delay = 0,
                   !.error = NewError(<<"Max retries exceeded">>)]

\* request(endpoint, options, retries) up to its first await (api.ts:63-72)
RequestBegin(op, retries) ==
    RequestLoop([NoCall EXCEPT !.op = op, !.viaRequest = TRUE, !.retries = retries])

\* request() from the completion of a fetch to its next await (api.ts:80-101)
RequestOnFetch(r, o) ==
    IF o.kind = "ok"
    THEN [r EXCEPT !.phase = "returned", !.value = o.body]
    ELSE IF o.kind = "badjson"
    THEN [r EXCEPT !.phase = "thrown",
                   !.error = [type |-> "SyntaxError", message |-> <<"Unexpected token">>]]
    ELSE LET error == RaisedError(o, "HTTP status") IN
         IF IsNetworkError(error) /\ r.attempt < r.retries
         THEN [r EXCEPT !.phase = "backoff", !.delay = BackoffDelay(r.attempt)]
         ELSE [r EXCEPT !.phase = "thrown", !.error = error]

\* request() when its backoff timer fires: continue, attempt++ (api.ts:96-97, 70)
RequestAfterBackoff(r) == RequestLoop([r EXCEPT !.attempt = r.attempt + 1])

----------------------------------------------------------------------------
(* The operations of ApiService *)

\* getJobStatus passes retries = 2, the other callers of request() take the
\* default of 3 (api.ts:66, 118, 148, 155, 179, 186)
DefaultRetries == 3
StatusRetries == 2

UsesRequest(op) == op \notin {"uploadFiles", "downloadResultFile"}

\* RetriesOf with polling given no retries at all
RetriesOfNoStatusRetry(op) == IF op = "getJobStatus" THEN 0 ELSE DefaultRetries

\* RetriesOf with getJobStatus left on the default
RetriesOfDefaultEverywhere(op) == DefaultRetries

RetriesOf(op) == IF op = "getJobStatus" THEN StatusRetries ELSE DefaultRetries

\* uploadFiles and downloadResultFile call fetch themselves (api.ts:131, 165)
DirectBegin(op) == [NoCall EXCEPT !.op = op, !.phase = "fetch"]

DirectFallback(op) == IF op = "uploadFiles" THEN "Upload failed" ELSE "Download failed"

\* api.ts:136-141, 167-172; response.blob() of downloadResultFile parses
\* nothing, so a body that is not JSON is returned as well
DirectOnFetch(r, o) ==
    IF o.kind = "ok" \/ (o.kind = "badjson" /\ r.op = "downloadResultFile")
    THEN [r EXCEPT !.phase = "returned", !.value = o.body]
    ELSE IF o.kind = "badjson"
    THEN [r EXCEPT !.phase = "thrown",
                   !.error = [type |-> "SyntaxError", message |-> <<"Unexpected token">>]]
    ELSE [r EXCEPT !.phase = "thrown", !.error = RaisedError(o, DirectFallback(r.op))]

ApiBegin(op) == IF UsesRequest(op) THEN RequestBegin(op, RetriesOf(op)) ELSE DirectBegin(op)

ApiOnFetch(r, o) == IF r.viaRequest THEN RequestOnFetch(r, o) ELSE DirectOnFetch(r, o)

----------------------------------------------------------------------------
(* Direct calls of the API: one call at a time, observed in `trace` *)

Event(ev, n) == [ev |-> ev, n |-> n]

\* the rejections the retry loop is written for: a TypeError whose message
\* carries one of the three network messages (api.ts:87-90)
NetworkFailures ==
    { e \in FetchRejections :
        e.message \in { <<"Failed to fetch">>,
                        <<"NetworkError", "when attempting to fetch resource.">>,
                        <<"net::", "ERR_NETWORK_CHANGED">> } }

\* the observation of a fetch outcome: a network failure, another failure
\* or a success, with the attempt index it happened at; an ok response
\* whose body is not JSON is a success for downloadResultFile, which reads
\* it as a blob (api.ts:172), and a failure where response.json() reads it
Observe(r, o) ==
    Event(IF o.kind = "ok" THEN "ok"
          ELSE IF o.kind = "badjson" /\ r.op = "downloadResultFile" THEN "ok"
          ELSE IF o.kind = "reject" /\ o.error \in NetworkFailures THEN "neterr"
          ELSE "err", r.attempt)

Finished(r) == r.phase \in {"idle", "returned", "thrown"}

Started(r) == IF r.phase = "fetch" THEN <<Event("fetch", r.attempt)>> ELSE <<>>

ApiCall(op) ==
    /\ Finished(req)
    /\ req' = ApiBegin(op)
    /\ trace' = Started(req')
    /\ UNCHANGED <<pollVars, pageVars, jobVars>>

RequestCall(retries) ==
    /\ Finished(req)
    /\ req' = RequestBegin("request", retries)
    /\ trace' = Started(req')
    /\ UNCHANGED <<pollVars, pageVars, jobVars>>

FetchResponds(o) ==
    /\ req.phase = "fetch"
    /\ req' = ApiOnFetch(req, o)
    /\ trace' = trace \o <<Observe(req, o)>>
                      \o (IF req'.phase = "backoff" THEN <<Event("wait", req'.delay)>> ELSE <<>>)
    /\ UNCHANGED <<pollVars, pageVars, jobVars>>

BackoffElapses ==
    /\ req.phase = "backoff"
    /\ req' = RequestAfterBackoff(req)
    /\ trace' = trace \o Started(req')
    /\ UNCHANGED <<pollVars, pageVars, jobVars>>

----------------------------------------------------------------------------
(* ApiService.pollJobStatus *)

\* api.ts:201
MaxConsecutiveErrors == 3

\* the delay argument of setTimeout is an integer number of milliseconds;
\* intervalMs * 1.5^k is intervalMs * 3^k / 2^k (api.ts:218)
AdaptiveInterval(intervalMs, k) == Min((intervalMs * (3 ^ k)) \div (2 ^ k), 10000)

\* PollBackoffInterval without its cap
PollBackoffIntervalUncapped(intervalMs, k) == intervalMs * (2 ^ k)

\* api.ts:231-232
PollBackoffInterval(intervalMs, k) == Min(intervalMs * (2 ^ k), 30000)

\* the closure of one pollJobStatus call: its parameters, consecutiveErrors,
\* and the promise it returned (api.ts:194-200)
NoPoll ==
    [started |-> FALSE, intervalMs |-> 0, onProgress |-> FALSE,
     consecutiveErrors |-> 0, promise |-> "pending",
     value |-> NoBody, reason |-> NoError]

\* resolve(value): settles a pending promise, and is ignored by a settled one
Resolve(p, value) ==
    IF p.promise = "pending" THEN [p EXCEPT !.promise = "resolved", !.value = value] ELSE p

\* reject(reason)
Reject(p, reason) ==
    IF p.promise = "pending" THEN [p EXCEPT !.promise = "rejected", !.reason = reason] ELSE p

\* api.ts:226
ThresholdError(error) ==
    NewError(<<"Failed to poll job status after", ToString(MaxConsecutiveErrors),
               "consecutive errors:">> \o error.message)

\* what one run of poll() after its await leaves behind: the closure, the
\* timers it scheduled and the callbacks it invoked, in order
Outcome(p, scheduled, effects) == [p |-> p, timers |-> scheduled, effects |-> effects]

\* PollCatch scheduling the retry and the regular next poll as well
PollCatchSchedulesTwice(p, error, effects) ==
    LET n == p.consecutiveErrors + 1
        q == [p EXCEPT !.consecutiveErrors = n]
    IN  IF n >= MaxConsecutiveErrors
        THEN Outcome(Reject(q, ThresholdError(error)), <<>>, effects \o <<"reject">>)
        ELSE Outcome(q, <<PollBackoffInterval(p.intervalMs, n), p.intervalMs>>,
                     effects \o <<"setTimeout", "setTimeout">>)

\* the catch block of poll() (api.ts:221-233)
PollCatch(p, error, effects) ==
    LET n == p.consecutiveErrors + 1
        q == [p EXCEPT !.consecutiveErrors = n]
    IN  IF n >= MaxConsecutiveErrors
        THEN Outcome(Reject(q, ThresholdError(error)), <<>>, effects \o <<"reject">>)
        ELSE Outcome(q, <<PollBackoffInterval(p.intervalMs, n)>>, effects \o <<"setTimeout">>)

\* PollTry reporting progress after it settled the promise or set the timer
PollTryProgressLast(p, status, thrown) ==
    LET q == [p EXCEPT !.consecutiveErrors = 0]
        effects == IF p.onProgress THEN <<"onProgress">> ELSE <<>>
        done == IF status.status = "completed"
                THEN Outcome(Resolve(q, status), <<>>, <<"resolve">> \o effects)
                ELSE IF status.status = "error"
                THEN Outcome(Reject(q, NewError(<<OrElse(status.error, "Job failed")>>)), <<>>,
                             <<"reject">> \o effects)
                ELSE Outcome(q, <<AdaptiveInterval(p.intervalMs, q.consecutiveErrors)>>,
                             <<"setTimeout">> \o effects)
    IN  IF p.onProgress /\ thrown # NoError
        THEN LET out == PollCatch(done.p, thrown, done.effects)
             IN  Outcome(out.p, done.timers \o out.timers, out.effects)
        ELSE done

\* what a call of onProgress does: it returns (NoError) or throws
CallbackOutcomes == {NoError, NewError(<<"onProgress failed">>)}

\* the try block of poll() after getJobStatus returned `status`: the count
\* is reset, then onProgress is called inside the try block, and what it
\* throws is caught by the catch block of poll() (api.ts:206-233)
PollTry(p, status, thrown) ==
    LET q == [p EXCEPT !.consecutiveErrors = 0]
        effects == IF p.onProgress THEN <<"onProgress">> ELSE <<>>
    IN  IF p.onProgress /\ thrown # NoError
        THEN PollCatch(q, thrown, effects)
        ELSE IF status.status = "completed"
        THEN Outcome(Resolve(q, status), <<>>, effects \o <<"resolve">>)
        ELSE IF status.status = "error"
        THEN Outcome(Reject(q, NewError(<<OrElse(status.error, "Job failed")>>)), <<>>,
                     effects \o <<"reject">>)
        ELSE Outcome(q, <<AdaptiveInterval(p.intervalMs, q.consecutiveErrors)>>,
                     effects \o <<"setTimeout">>)

\* poll() from the completion of `await this.getJobStatus(jobId)`, which
\* returned (r.phase = "returned") or threw (api.ts:204-233); `thrown` is
\* what onProgress does if it is called
PollOnResult(p, r, thrown) ==
    IF r.phase = "returned" THEN PollTry(p, r.value, thrown) ELSE PollCatch(p, r.error, <<>>)

\* poll() up to its await: getJobStatus issues its request (api.ts:203-205)
PollInvoke == ApiBegin("getJobStatus")

----------------------------------------------------------------------------
(* One pollJobStatus call and the event loop around it *)

Remove(seq, i) == SubSeq(seq, 1, i - 1) \o SubSeq(seq, i + 1, Len(seq))

Count(seq, xs) == Cardinality({ i \in 1..Len(seq) : seq[i] \in xs })

\* the values intervalMs is called with (2000 is the default, api.ts:197)
IntervalInputs == {500, 2000, 12000, 40000}

\* observations of a pollJobStatus call, none of them read by the code:
\*   polls        getJobStatus calls issued
\*   fetches      fetches issued since the last successful status response
\*   failStreak   getJobStatus calls that failed in a row, up to now
\*   errStreak    polling errors since the last response of getJobStatus:
\*                failed calls, and a throw of onProgress on that response
\*   priorErrors  the failStreak the last successful response put an end to
\*   settleCalls  calls of resolve or reject
\*   lastResponse the status the last getJobStatus call returned, if it did
\*   scheduled    the timer the last completed poll() scheduled, if any
\*   successes    getJobStatus calls that returned
\*   lastEffects  the callbacks the last completed poll() invoked, in order
\* (the counters of calls stop counting at MaxPolls)
NoHist ==
    [polls |-> 0, fetches |-> 0, failStreak |-> 0, errStreak |-> 0, priorErrors |-> 0,
     settleCalls |-> 0, progressCalls |-> 0, lastResponse |-> NoBody,
     scheduled |-> [after |-> "none", delay |-> 0],
     successes |-> 0, lastEffects |-> <<>>]

HistAfter(h, r, out, threw) ==
    LET success == r.phase = "returned" IN
    [h EXCEPT
        !.fetches = IF success THEN 0 ELSE h.fetches,
        !.failStreak = IF success THEN 0 ELSE h.failStreak + 1,
        !.errStreak = IF success THEN (IF threw THEN 1 ELSE 0) ELSE h.errStreak + 1,
        !.priorErrors = IF success THEN h.failStreak ELSE h.priorErrors,
        !.settleCalls = h.settleCalls + Count(out.effects, {"resolve", "reject"}),
        !.progressCalls = Min(h.progressCalls + Count(out.effects, {"onProgress"}), MaxPolls),
        !.lastResponse = IF success THEN r.value ELSE NoBody,
        !.successes = Min(h.successes + (IF success THEN 1 ELSE 0), MaxPolls),
        !.lastEffects = out.effects,
        !.scheduled = IF out.timers = <<>>
                      THEN [after |-> "none", delay |-> 0]
                      ELSE [after |-> IF success /\ ~threw THEN "success" ELSE "error",
                            delay |-> out.timers[Len(out.timers)]]]

\* pollJobStatus(jobId, onProgress, intervalMs): the executor of the new
\* promise runs, and calls poll() (api.ts:199-200, 236)
PollBegin(intervalMs, onProgress) ==
    /\ ~poll.started
    /\ poll' = [NoPoll EXCEPT !.started = TRUE, !.intervalMs = intervalMs,
                              !.onProgress = onProgress]
    /\ inflight' = <<PollInvoke>>
    /\ timers' = <<>>
    /\ pollHist' = [NoHist EXCEPT !.polls = 1, !.fetches = 1]

\* a direct call of pollJobStatus
PollStart(intervalMs, onProgress) ==
    /\ PollBegin(intervalMs, onProgress)
    /\ UNCHANGED <<apiVars, pageVars, jobVars>>

\* a fetch of a running poll() completes: request() either waits to retry,
\* or returns or throws into poll(), which runs to its end; `thrown` is
\* what onProgress does if poll() calls it
PollFetchResponds(i, o, thrown) ==
    /\ inflight[i].phase = "fetch"
    /\ LET r == RequestOnFetch(inflight[i], o) IN
       IF r.phase = "backoff"
       THEN /\ inflight' = [inflight EXCEPT ![i] = r]
            /\ UNCHANGED <<poll, timers, pollHist>>
       ELSE LET out == PollOnResult(poll, r, thrown) IN
            /\ poll' = out.p
            /\ inflight' = Remove(inflight, i)
            /\ timers' = timers \o out.timers
            /\ pollHist' = HistAfter(pollHist, r, out,
                                     r.phase = "returned" /\ poll.onProgress /\ thrown # NoError)
    /\ UNCHANGED <<apiVars, pageVars, jobVars>>

\* the backoff timer of request() fires: the next attempt is fetched
PollBackoffElapses(i) ==
    /\ inflight[i].phase = "backoff"
    /\ inflight' = [inflight EXCEPT ![i] = RequestAfterBackoff(inflight[i])]
    /\ pollHist' = [pollHist EXCEPT !.fetches = pollHist.fetches + 1]
    /\ UNCHANGED <<poll, timers, apiVars, pageVars, jobVars>>

\* a setTimeout(poll, d) timer fires: poll() runs up to its await
PollTimerFires(i) ==
    /\ pollHist.polls < MaxPolls
    /\ timers' = Remove(timers, i)
    /\ inflight' = Append(inflight, PollInvoke)
    /\ pollHist' = [pollHist EXCEPT !.polls = pollHist.polls + 1,
                                    !.fetches = pollHist.fetches + 1]
    /\ UNCHANGED <<poll, apiVars, pageVars, jobVars>>

----------------------------------------------------------------------------
(* The Upload page (Upload.tsx:17-83, 195-222) *)

\* an UploadedFile; ids are taken to be unique (Upload.tsx:22-27)
NewFile(id) == [id |-> id, status |-> "pending", progress |-> 0]

\* the files state, isProcessing, the last toast, and the processFiles call
\* in progress: the `files` its closure captured, its loop variables i and
\* progress (Upload.tsx:18-19, 57, 65)
NoRun == [active |-> FALSE, files |-> <<>>, i |-> 0, progress |-> 0]

UploadInit ==
    [files |-> <<>>, isProcessing |-> FALSE, toast |-> "none", nextId |-> 1, run |-> NoRun]

\* setFiles(prev => prev.map(f => f.id === id ? {...f, [field]: value} : f))
SetFileField(files, id, field, value) ==
    [k \in 1..Len(files) |->
        IF files[k].id = id THEN [files[k] EXCEPT ![field] = value] ELSE files[k]]

\* onDrop(acceptedFiles) with n accepted files (Upload.tsx:21-31)
OnDrop(u, n) ==
    [u EXCEPT !.files = u.files \o [k \in 1..n |-> NewFile(u.nextId + k - 1)],
              !.nextId = u.nextId + n,
              !.toast = "added"]

\* removeFile(id) (Upload.tsx:44-46)
RemoveFile(u, id) ==
    [u EXCEPT !.files = SelectSeq(u.files, LAMBDA f : f.id # id)]

\* the body of the outer loop up to the await of the inner loop: file i of
\* the captured list is marked 'uploading' (Upload.tsx:57-66)
ProcessLoop(u, run) ==
    IF run.i < Len(run.files)
    THEN [u EXCEPT !.files = SetFileField(u.files, run.files[run.i + 1].id, "status", "uploading"),
                   !.run = [run EXCEPT !.progress = 0]]
    ELSE [u EXCEPT !.isProcessing = FALSE, !.toast = "success", !.run = NoRun]

\* processFiles() up to its first await (Upload.tsx:48-66)
ProcessFilesBegin(u) ==
    IF Len(u.files) = 0
    THEN [u EXCEPT !.toast = "error"]
    ELSE ProcessLoop([u EXCEPT !.isProcessing = TRUE],
                     [active |-> TRUE, files |-> u.files, i |-> 0, progress |-> 0])

\* ProcessFilesTick moving on to the next file without marking the file
\* 'completed'
ProcessFilesTickNoComplete(u) ==
    LET id == u.run.files[u.run.i + 1].id
        shown == [u EXCEPT !.files = SetFileField(u.files, id, "progress", u.run.progress)]
    IN  IF u.run.progress + 10 <= 100
        THEN [shown EXCEPT !.run.progress = u.run.progress + 10]
        ELSE ProcessLoop(shown, [u.run EXCEPT !.i = u.run.i + 1])

\* processFiles() from the firing of its 100 ms timer to its next await or
\* its end (Upload.tsx:66-82)
ProcessFilesTick(u) ==
    LET id == u.run.files[u.run.i + 1].id
        shown == [u EXCEPT !.files = SetFileField(u.files, id, "progress", u.run.progress)]
    IN  IF u.run.progress + 10 <= 100
        THEN [shown EXCEPT !.run.progress = u.run.progress + 10]
        ELSE ProcessLoop([shown EXCEPT !.files = SetFileField(shown.files, id, "status", "completed")],
                         [u.run EXCEPT !.i = u.run.i + 1])

\* the controls: Start is disabled while processing or with no file, the
\* remove buttons and Clear All while processing; the file card is rendered
\* only with files (Upload.tsx:160, 199, 211, 219)
StartEnabled(u) == ~(u.isProcessing \/ Len(u.files) = 0)

\* RemoveEnabled with buttons that are never disabled
RemoveEnabledAlways(u) == TRUE

RemoveEnabled(u) == ~u.isProcessing

DropFiles(n) ==
    /\ upload.nextId + n <= MaxFiles + 1
    /\ upload' = OnDrop(upload, n)
    /\ UNCHANGED <<jobVars, apiVars, pollVars, results, apiLog>>

ClickRemove(k) ==
    /\ RemoveEnabled(upload)
    /\ upload' = RemoveFile(upload, upload.files[k].id)
    /\ UNCHANGED <<jobVars, apiVars, pollVars, results, apiLog>>

ClickClearAll ==
    /\ Len(upload.files) > 0
    /\ RemoveEnabled(upload)
    /\ upload' = [upload EXCEPT !.files = <<>>]
    /\ UNCHANGED <<jobVars, apiVars, pollVars, results, apiLog>>

ClickStart ==
    /\ StartEnabled(upload)
    /\ upload' = ProcessFilesBegin(upload)
    /\ UNCHANGED <<jobVars, apiVars, pollVars, results, apiLog>>

ProgressTimerFires ==
    /\ upload.run.active
    /\ upload' = ProcessFilesTick(upload)
    /\ UNCHANGED <<jobVars, apiVars, pollVars, results, apiLog>>

----------------------------------------------------------------------------
(* The Results page (Upload.tsx:256-342) *)

\* one run of the effect: the jobId it ran with, the position of its
\* loadResults call ("none": the effect returned without one, "status" and
\* "results": awaiting that request, "done": finished) and the request it
\* awaits; `status` and `calls` record the status this call was answered
\* with and the ApiService methods it called
NoLoad ==
    [jobId |-> Null, pc |-> "none", call |-> NoCall, status |-> "", calls |-> <<>>]

\* jobId, the React state (results, jobStatus, loading, error), the runs of
\* the effect with their loadResults calls, the downloadModel calls (how many
\* were made, the formats of those awaiting their download) and the last
\* toast
ResultsInit ==
    [mounted |-> FALSE, jobId |-> Null, results |-> NoBody, jobStatus |-> NoBody,
     loading |-> TRUE, error |-> Null, loads |-> <<>>,
     downloads |-> 0, downloading |-> <<>>, toast |-> Null]

\* the branch the component renders (Upload.tsx:345, 357, 398)
View(v) ==
    IF v.loading THEN "loading"
    ELSE IF v.error # Null THEN "error"
    ELSE "main"

\* results.total_slices || 0: a missing field and 0 are falsy
TotalSlicesOr(total_slices, fallback) ==
    IF total_slices = Null \/ total_slices = <<0>> THEN fallback ELSE total_slices[1]

\* the values shown while results is null (Upload.tsx:319-327)
MockInfo == [totalSlices |-> 100, processingTime |-> "Loading..."]

\* processingInfo (Upload.tsx:311-327)
ProcessingInfo(v) ==
    IF v.results # NoBody
    THEN [totalSlices |-> TotalSlicesOr(v.results.total_slices, 0),
          processingTime |-> OrElse(v.results.processing_time, "N/A")]
    ELSE MockInfo

\* the download buttons exist in the main view only (Upload.tsx:409, 413,
\* 648-660)
DownloadEnabled(v) == View(v) = "main"

DownloadFormats == {"stl", "obj", "ply", "report"}

\* format.toUpperCase()
ToUpperCase(format) ==
    CASE format = "stl" -> "STL"
      [] format = "obj" -> "OBJ"
      [] format = "ply" -> "PLY"
      [] format = "report" -> "REPORT"

\* downloadModel(format) up to its await (Upload.tsx:329-336)
DownloadModel(v, format) ==
    IF v.jobId = Null
    THEN [v EXCEPT !.downloads = v.downloads + 1,
                   !.toast = <<"No job ID available for download">>]
    ELSE [v EXCEPT !.downloads = v.downloads + 1,
                   !.downloading = Append(v.downloading, format)]

\* downloadModel(format) when downloadAndSaveFile returned or threw
\* (Upload.tsx:337-341, api.ts:277-294)
DownloadOnResult(v, i, r) ==
    [v EXCEPT !.downloading = Remove(v.downloading, i),
              !.toast = IF r.phase = "returned"
                        THEN <<ToUpperCase(v.downloading[i]), "file downloaded successfully">>
                        ELSE <<"Download failed:">> \o r.error.message]

\* LoadCatch with setLoading(false) at the end of the try block instead of
\* the finally block
LoadCatchKeepsLoading(v, i, error) ==
    [v EXCEPT !.error = <<"Failed to load results:">> \o error.message,
              !.loads[i].pc = "done", !.loads[i].call = NoCall]

\* the catch and finally blocks of loadResults (Upload.tsx:299-304)
LoadCatch(v, i, error) ==
    [v EXCEPT !.error = <<"Failed to load results:">> \o error.message,
              !.loading = FALSE, !.loads[i].pc = "done", !.loads[i].call = NoCall]

\* LoadOnStatus without the error for a job that is not yet completed
LoadOnStatusSilent(v, i, status) ==
    LET w == [v EXCEPT !.jobStatus = status] IN
    IF status.status = "completed"
    THEN [w EXCEPT !.loads[i].pc = "results", !.loads[i].call = ApiBegin("getJobResults")]
    ELSE [w EXCEPT !.error = IF status.status = "error"
                             THEN <<"Processing failed:", OrElse(status.error, "Unknown error")>>
                             ELSE v.error,
                   !.loading = FALSE, !.loads[i].pc = "done", !.loads[i].call = NoCall]

\* LoadOnStatus requesting the results whatever the status is
LoadOnStatusUnchecked(v, i, status) ==
    [v EXCEPT !.jobStatus = status,
              !.loads[i].pc = "results", !.loads[i].call = ApiBegin("getJobResults")]

\* loadResults from the return of getJobStatus to its next await or its end
\* (Upload.tsx:287-298, 302-304)
LoadOnStatus(v, i, status) ==
    LET w == [v EXCEPT !.jobStatus = status] IN
    IF status.status = "completed"
    THEN [w EXCEPT !.loads[i].pc = "results", !.loads[i].call = ApiBegin("getJobResults")]
    ELSE [w EXCEPT !.error = IF status.status = "error"
                             THEN <<"Processing failed:", OrElse(status.error, "Unknown error")>>
                             ELSE <<"Processing not yet completed">>,
                   !.loading = FALSE, !.loads[i].pc = "done", !.loads[i].call = NoCall]

\* loadResults from the return of getJobResults to its end (Upload.tsx:292-293, 302-304)
LoadOnResults(v, i, jobResults) ==
    [v EXCEPT !.results = jobResults, !.loading = FALSE,
              !.loads[i].pc = "done", !.loads[i].call = NoCall]

\* loadResults when the request it awaits returned or threw
LoadOnResult(v, i, r) ==
    IF r.phase = "thrown" THEN LoadCatch(v, i, r.error)
    ELSE IF v.loads[i].pc = "status" THEN LoadOnStatus(v, i, r.value)
    ELSE LoadOnResults(v, i, r.value)

\* LoadEffect without the test of jobId
LoadEffectUnguarded(v, jobId) ==
    [v EXCEPT !.mounted = TRUE, !.jobId = jobId,
              !.loads = Append(@, [NoLoad EXCEPT !.jobId = jobId, !.pc = "status",
                                                 !.call = ApiBegin("getJobStatus")])]

\* the effect, run when the component mounts and again whenever jobId
\* changes; no run resets the state or cancels an earlier loadResults
\* (Upload.tsx:274-308)
LoadEffect(v, jobId) ==
    IF jobId = Null
    THEN [v EXCEPT !.mounted = TRUE, !.jobId = jobId,
                   !.error = <<"No job ID provided">>, !.loading = FALSE,
                   !.loads = Append(@, NoLoad)]
    ELSE [v EXCEPT !.mounted = TRUE, !.jobId = jobId,
                   !.loads = Append(@, [NoLoad EXCEPT !.jobId = jobId, !.pc = "status",
                                                      !.call = ApiBegin("getJobStatus")])]

\* the ApiService method run i of the effect has just called, if any
Called(before, after, i) ==
    IF /\ after.loads[i].call.op # "none"
       /\ i > Len(before.loads) \/ after.loads[i].call.op # before.loads[i].call.op
    THEN <<after.loads[i].call.op>> ELSE <<>>

\* the record of a step of run i: the methods it called and the status its
\* getJobStatus call was answered with
Recorded(before, after, i, status) ==
    [after EXCEPT !.loads[i].calls = @ \o Called(before, after, i),
                  !.loads[i].status = status]

JobIdInputs == {Null, <<"job-1">>, <<"job-2">>}

\* the page opened with and without the jobId of one job
OneJobIdInputs == {Null, <<"job-1">>}

\* the answers the Results page is given: of the statuses, those the
\* backend produces, where only a failed job carries an error and only a
\* completed one its results (the page reads status and error)
LoadOutcomes(op) ==
    { o \in FetchOutcomes(op) :
        (o.kind = "ok" /\ op = "getJobStatus") =>
            /\ o.body.results = (o.body.status = "completed")
            /\ o.body.error # Undefined => o.body.status = "error" }

\* the downloadModel calls that are followed
MaxDownloads == 2

\* the runs of the effect that are followed
MaxEffectRuns == 2

ClickDownload(format) ==
    /\ DownloadEnabled(results)
    /\ results.downloads < MaxDownloads
    /\ results' = DownloadModel(results, format)
    /\ UNCHANGED <<jobVars, apiVars, pollVars, upload, apiLog>>

DownloadFetchResponds(i, o) ==
    /\ results' = DownloadOnResult(results, i,
                                   DirectOnFetch(DirectBegin("downloadResultFile"), o))
    /\ UNCHANGED <<jobVars, apiVars, pollVars, upload, apiLog>>

\* the effect runs with jobId
ResultsEffectRuns(jobId) ==
    LET next == LoadEffect(results, jobId)
        i == Len(next.loads)
    IN  /\ results' = Recorded(results, next, i, "")
        /\ apiLog' = apiLog \o Called(results, next, i)
        /\ UNCHANGED <<jobVars, apiVars, pollVars, upload>>

\* the page is opened
ResultsMount(jobId) ==
    /\ ~results.mounted
    /\ ResultsEffectRuns(jobId)

\* the mounted page is rendered with another jobId
ResultsJobIdChanges(jobId) ==
    /\ results.mounted
    /\ jobId # results.jobId
    /\ Len(results.loads) < MaxEffectRuns
    /\ ResultsEffectRuns(jobId)

ResultsFetchResponds(i, o) ==
    /\ results.loads[i].call.phase = "fetch"
    /\ LET r == RequestOnFetch(results.loads[i].call, o)
           next == IF r.phase = "backoff"
                   THEN [results EXCEPT !.loads[i].call = r]
                   ELSE LoadOnResult(results, i, r)
           status == IF results.loads[i].pc = "status" /\ o.kind = "ok"
                     THEN o.body.status ELSE results.loads[i].status
       IN  /\ results' = Recorded(results, next, i, status)
           /\ apiLog' = apiLog \o Called(results, next, i)
    /\ UNCHANGED <<jobVars, apiVars, pollVars, upload>>

ResultsBackoffElapses(i) ==
    /\ results.loads[i].call.phase = "backoff"
    /\ results' = [results EXCEPT !.loads[i].call = RequestAfterBackoff(results.loads[i].call)]
    /\ UNCHANGED <<jobVars, apiVars, pollVars, upload, apiLog>>

----------------------------------------------------------------------------
(* ApiService.processFiles (api.ts:243-267) *)

\* intervalMs when pollJobStatus is called without it (api.ts:197)
DefaultIntervalMs == 2000

\* a processFiles call: whether onProgress was passed, the stage it is in
\* ("upload": awaiting uploadFiles, "poll": awaiting pollJobStatus,
\* "thrown": uploadFiles threw), and its uploadFiles call
NoProcess ==
    [pc |-> "idle", onProgress |-> FALSE, upload |-> NoCall, error |-> NoError]

\* processFiles(files, onProgress) up to its first await (api.ts:243-251)
ProcessBegin(onProgress) ==
    [NoProcess EXCEPT !.pc = "upload", !.onProgress = onProgress,
                      !.upload = ApiBegin("uploadFiles")]

\* processFiles when uploadFiles returned or threw (api.ts:251-254)
ProcessOnUpload(c, r) ==
    IF r.phase = "returned"
    THEN [c EXCEPT !.pc = "poll", !.upload = r]
    ELSE [c EXCEPT !.pc = "thrown", !.upload = r, !.error = r.error]

\* ProcessAfterPoll returning whatever the completed status carries
ProcessAfterPollUnchecked(c, p) ==
    IF c.pc = "thrown"
    THEN [state |-> "thrown", error |-> c.error, results |-> FALSE]
    ELSE IF c.pc = "poll" /\ p.promise = "resolved"
    THEN [state |-> "returned", error |-> NoError, results |-> p.value.results]
    ELSE IF c.pc = "poll" /\ p.promise = "rejected"
    THEN [state |-> "thrown", error |-> p.reason, results |-> FALSE]
    ELSE [state |-> "pending", error |-> NoError, results |-> FALSE]

\* the promise processFiles returned: rejected with the error of uploadFiles
\* or of pollJobStatus, or settled by the lines after `await pollJobStatus`,
\* which run as soon as that promise is settled (api.ts:251-266)
ProcessAfterPoll(c, p) ==
    IF c.pc = "thrown"
    THEN [state |-> "thrown", error |-> c.error, results |-> FALSE]
    ELSE IF c.pc = "poll" /\ p.promise = "resolved"
    THEN IF ~p.value.results
         THEN [state |-> "thrown", error |-> NewError(<<"No results available">>),
               results |-> FALSE]
         ELSE [state |-> "returned", error |-> NoError, results |-> p.value.results]
    ELSE IF c.pc = "poll" /\ p.promise = "rejected"
    THEN [state |-> "thrown", error |-> p.reason, results |-> FALSE]
    ELSE [state |-> "pending", error |-> NoError, results |-> FALSE]

ProcessStart(onProgress) ==
    /\ proc.pc = "idle"
    /\ proc' = ProcessBegin(onProgress)
    /\ UNCHANGED <<apiVars, pollVars, pageVars, backend>>

\* the fetch of uploadFiles is still awaited
ProcessUploadFails(o) ==
    /\ proc.pc = "upload"
    /\ o.kind # "ok"
    /\ proc' = ProcessOnUpload(proc, ApiOnFetch(proc.upload, o))
    /\ UNCHANGED <<apiVars, pollVars, pageVars, backend>>

\* uploadFiles returns, and processFiles calls pollJobStatus with the
\* default interval
ProcessUploadReturns(o) ==
    /\ proc.pc = "upload"
    /\ o.kind = "ok"
    /\ proc' = ProcessOnUpload(proc, ApiOnFetch(proc.upload, o))
    /\ PollBegin(DefaultIntervalMs, proc.onProgress)
    /\ UNCHANGED <<apiVars, pageVars, backend>>

----------------------------------------------------------------------------
(* The job at the backend, for a pollJobStatus call that runs on *)

TerminalStatuses == {"completed", "error"}

\* the statuses a job can move to: queued, then processing, then completed
\* or error, where it stays (api.ts:10)
BackendSuccessors(status) ==
    IF status = "queued" THEN {"processing", "completed", "error"}
    ELSE IF status = "processing" THEN {"completed", "error"}
    ELSE {}

BackendAdvances ==
    /\ \E status \in BackendSuccessors(backend) : backend' = status
    /\ UNCHANGED <<apiVars, pollVars, pageVars, proc>>

\* a fetch of a running poll() completes; a response that is ok carries
\* the status the job has at the backend
PollFetchRespondsFromBackend(i, o, thrown) ==
    /\ o.kind = "ok" => o.body.status = backend
    /\ PollFetchResponds(i, o, thrown)

\* a setTimeout(poll, d) timer fires, any number of times: the poll is not
\* counted in pollHist.polls
PollTimerFiresUncounted(i) ==
    /\ timers' = Remove(timers, i)
    /\ inflight' = Append(inflight, PollInvoke)
    /\ pollHist' = [pollHist EXCEPT !.fetches = pollHist.fetches + 1]
    /\ UNCHANGED <<poll, apiVars, pageVars, jobVars>>

----------------------------------------------------------------------------

Init ==
    /\ req = NoCall
    /\ trace = <<>>
    /\ poll = NoPoll
    /\ inflight = <<>>
    /\ timers = <<>>
    /\ pollHist = NoHist
    /\ upload = UploadInit
    /\ results = ResultsInit
    /\ apiLog = <<>>
    /\ proc = NoProcess
    /\ backend = "queued"

NextApi ==
    \/ \E op \in Operations : ApiCall(op)
    \/ \E retries \in 0..MaxRetries : RequestCall(retries)
    \/ \E o \in FetchOutcomes(req.op) : FetchResponds(o)
    \/ BackoffElapses

SpecApi == Init /\ [][NextApi]_vars

NextPoll ==
    \/ \E intervalMs \in IntervalInputs, onProgress \in BOOLEAN :
          PollStart(intervalMs, onProgress)
    \/ \E i \in 1..Len(inflight) :
          \E o \in FetchOutcomes("getJobStatus") :
             \E thrown \in CallbackOutcomes : PollFetchResponds(i, o, thrown)
    \/ \E i \in 1..Len(inflight) : PollBackoffElapses(i)
    \/ \E i \in 1..Len(timers) : PollTimerFires(i)

SpecPoll == Init /\ [][NextPoll]_vars

NextUpload ==
    \/ \E n \in 0..2 : DropFiles(n)
    \/ \E k \in 1..Len(upload.files) : ClickRemove(k)
    \/ ClickClearAll
    \/ ClickStart
    \/ ProgressTimerFires

SpecUpload == Init /\ [][NextUpload]_vars

NextResults ==
    \/ \E jobId \in JobIdInputs : ResultsMount(jobId)
    \/ \E jobId \in JobIdInputs : ResultsJobIdChanges(jobId)
    \/ \E i \in 1..Len(results.loads) :
          \E o \in LoadOutcomes(results.loads[i].call.op) : ResultsFetchResponds(i, o)
    \/ \E i \in 1..Len(results.loads) : ResultsBackoffElapses(i)

SpecResults == Init /\ [][NextResults]_vars

\* the Results page of one job with its download buttons
NextDownload ==
    \/ \E jobId \in OneJobIdInputs : ResultsMount(jobId)
    \/ \E jobId \in OneJobIdInputs : ResultsJobIdChanges(jobId)
    \/ \E i \in 1..Len(results.loads) :
          \E o \in LoadOutcomes(results.loads[i].call.op) : ResultsFetchResponds(i, o)
    \/ \E i \in 1..Len(results.loads) : ResultsBackoffElapses(i)
    \/ \E format \in DownloadFormats : ClickDownload(format)
    \/ \E i \in 1..Len(results.downloading) :
          \E o \in FetchOutcomes("downloadResultFile") : DownloadFetchResponds(i, o)

SpecDownload == Init /\ [][NextDownload]_vars

NextProcess ==
    \/ \E onProgress \in BOOLEAN : ProcessStart(onProgress)
    \/ \E o \in FetchOutcomes("uploadFiles") : ProcessUploadFails(o)
    \/ \E o \in FetchOutcomes("uploadFiles") : ProcessUploadReturns(o)
    \/ \E i \in 1..Len(inflight) :
          \E o \in FetchOutcomes("getJobStatus") :
             \E thrown \in CallbackOutcomes : PollFetchResponds(i, o, thrown)
    \/ \E i \in 1..Len(inflight) : PollBackoffElapses(i)
    \/ \E i \in 1..Len(timers) : PollTimerFires(i)

SpecProcess == Init /\ [][NextProcess]_vars

NextPollFair ==
    \/ \E intervalMs \in IntervalInputs, onProgress \in BOOLEAN :
          PollStart(intervalMs, onProgress)
    \/ \E i \in 1..Len(inflight) :
          \E o \in FetchOutcomes("getJobStatus") :
             \E thrown \in CallbackOutcomes : PollFetchRespondsFromBackend(i, o, thrown)
    \/ \E i \in 1..Len(inflight) : PollBackoffElapses(i)
    \/ \E i \in 1..Len(timers) : PollTimerFiresUncounted(i)
    \/ BackendAdvances

\* every fetch is answered, every timer fires, and the job reaches a
\* terminal status
SpecPollFair ==
    /\ Init /\ [][NextPollFair]_vars
    /\ WF_vars(\E i \in 1..Len(inflight) :
                  \E o \in FetchOutcomes("getJobStatus") :
                     \E thrown \in CallbackOutcomes : PollFetchRespondsFromBackend(i, o, thrown))
    /\ WF_vars(\E i \in 1..Len(inflight) : PollBackoffElapses(i))
    /\ WF_vars(\E i \in 1..Len(timers) : PollTimerFiresUncounted(i))
    /\ WF_vars(BackendAdvances)

\* the Results page of one job when every fetch is answered and every
\* backoff timer of request() fires
NextResultsOneJob ==
    \/ \E jobId \in OneJobIdInputs : ResultsMount(jobId)
    \/ \E jobId \in OneJobIdInputs : ResultsJobIdChanges(jobId)
    \/ \E i \in 1..Len(results.loads) :
          \E o \in LoadOutcomes(results.loads[i].call.op) : ResultsFetchResponds(i, o)
    \/ \E i \in 1..Len(results.loads) : ResultsBackoffElapses(i)

SpecResultsFair ==
    /\ Init /\ [][NextResultsOneJob]_vars
    /\ WF_vars(\E i \in 1..Len(results.loads) :
                  \E o \in LoadOutcomes(results.loads[i].call.op) : ResultsFetchResponds(i, o))
    /\ WF_vars(\E i \in 1..Len(results.loads) : ResultsBackoffElapses(i))

----------------------------------------------------------------------------
(* Claims about request() and the operations, checked under SpecApi *)

EventsAt(ev) == { i \in 1..Len(trace) : trace[i].ev = ev }

\* C2: request() backs off exponentially on network errors: a network
\* error at attempt k < retries is followed at once by a wait of 2^k * 1000
\* ms, every fetch after the first comes right after such a wait, at most
\* retries + 1 fetches are issued, and a network error at attempt k = retries
\* is thrown to the caller with no further wait.
RequestBackoffIsExponential ==
    req.viaRequest =>
        /\ \A i \in EventsAt("neterr") :
              trace[i].n < req.retries =>
                  /\ i + 1 <= Len(trace)
                  /\ trace[i + 1] = Event("wait", (2 ^ trace[i].n) * 1000)
                  /\ i + 2 <= Len(trace) => trace[i + 2] = Event("fetch", trace[i].n + 1)
        /\ \A i \in EventsAt("fetch") :
              trace[i].n > 0 =>
                  /\ i > 2
                  /\ trace[i - 1] = Event("wait", (2 ^ (trace[i].n - 1)) * 1000)
                  /\ trace[i - 2] = Event("neterr", trace[i].n - 1)
        /\ Cardinality(EventsAt("fetch")) <= req.retries + 1
        /\ \A i \in EventsAt("neterr") :
              trace[i].n = req.retries =>
                  /\ i = Len(trace)
                  /\ req.phase = "thrown"
                  /\ req.error \in NetworkFailures
                  /\ req.delay = 0

\* a call with the default retries = 3 that failed four times: it waited
\* 1 s, 2 s and 4 s, and threw the fourth network error
RequestBackoffWitness ==
    /\ req.viaRequest /\ req.retries = 3 /\ req.phase = "thrown"
    /\ Len(trace) = 11
    /\ trace[3] = Event("wait", 1000)
    /\ trace[6] = Event("wait", 2000)
    /\ trace[9] = Event("wait", 4000)
    /\ trace[11] = Event("neterr", 3)

\* C3: request() retries only network errors: any other failure (a response
\* that is not ok, a rejection that is not a TypeError with a network
\* message) is thrown on the attempt it happens at, with no wait and no
\* further fetch, whatever retries remain; a success returns at once.
RequestRetriesOnlyNetworkErrors ==
    req.viaRequest =>
        /\ \A i \in EventsAt("err") :
              /\ i = Len(trace)
              /\ req.phase = "thrown"
              /\ req.delay = 0
              /\ req.attempt = trace[i].n
        /\ \A i \in EventsAt("ok") :
              /\ i = Len(trace)
              /\ req.phase = "returned"
              /\ req.delay = 0
              /\ req.attempt = trace[i].n

\* an HTTP error whose text reads 'Failed to fetch' is thrown on the first
\* attempt although three retries remain
RequestNoRetryWitness ==
    /\ req.viaRequest /\ req.retries = 3 /\ req.phase = "thrown"
    /\ trace = <<Event("fetch", 0), Event("err", 0)>>
    /\ req.error = NewError(<<"Failed to fetch">>)

OperationsViaRequest ==
    {"healthCheck", "getJobStatus", "getJobResults", "listJobs", "deleteJob"}

FirstFetchNetworkError == Len(trace) >= 2 /\ trace[2] = Event("neterr", 0)

SecondFetchAfterWait ==
    /\ Len(trace) >= 3
    /\ trace[3] = Event("wait", 1000)
    /\ req.phase # "backoff" => Len(trace) >= 4 /\ trace[4] = Event("fetch", 1)

\* C8 as claimed: for every operation of the API client, a network error on
\* the first fetch is followed by a delayed second fetch, not thrown.
EveryOperationRetries ==
    (req.op \in Operations /\ FirstFetchNetworkError) => SecondFetchAfterWait

\* C8 as amended: the operations built on request() retry a network error
\* on their first fetch after a wait of 1 s; uploadFiles and
\* downloadResultFile issue a single fetch and throw the network error.
RequestOperationsRetry ==
    FirstFetchNetworkError =>
        /\ req.op \in OperationsViaRequest => SecondFetchAfterWait
        /\ req.op \in {"uploadFiles", "downloadResultFile"} =>
              /\ Len(trace) = 2
              /\ req.phase = "thrown"
              /\ req.error \in NetworkFailures

\* getJobStatus failed once on the network and issued its second fetch
RequestOperationsRetryWitness ==
    /\ req.op = "getJobStatus"
    /\ Len(trace) = 4
    /\ trace[2] = Event("neterr", 0)
    /\ trace[3] = Event("wait", 1000)
    /\ trace[4] = Event("fetch", 1)

----------------------------------------------------------------------------
(* Claims about pollJobStatus, checked under SpecPoll *)

ThresholdRejected ==
    /\ poll.promise = "rejected"
    /\ Len(poll.reason.message) >= 3
    /\ SubSeq(poll.reason.message, 1, 3) =
          <<"Failed to poll job status after", "3", "consecutive errors:">>

\* C1 as claimed: pollJobStatus rejects with 'Failed to poll job status after 3
\* consecutive errors' exactly at the step where the third getJobStatus call
\* in a row fails, never for fewer consecutive failures, and after that
\* rejection no timer is pending and no status request is issued.
PollRejectsAtThirdConsecutiveError ==
    /\ [](/\ pollHist.failStreak <= 3
          /\ ThresholdRejected <=> pollHist.failStreak = 3
          /\ ThresholdRejected => timers = <<>> /\ inflight = <<>>)
    /\ [][(~ThresholdRejected /\ ThresholdRejected') =>
             (pollHist.failStreak = 2 /\ pollHist'.failStreak = 3)]_vars
    /\ [][ThresholdRejected =>
             (pollHist'.polls = pollHist.polls /\ timers' = <<>> /\ inflight' = <<>>)]_vars

\* C4 as claimed: the delay scheduled after a successful response with a
\* non-terminal status is min(intervalMs * 1.5^k, 10000), k being the number
\* of consecutive polling errors that preceded that response.
PollIntervalAdaptsToErrors ==
    pollHist.scheduled.after = "success" =>
        pollHist.scheduled.delay = AdaptiveInterval(poll.intervalMs, pollHist.priorErrors)

\* C5: one pollJobStatus call has at most one outstanding activity, a
\* pending poll timer or a getJobStatus request in flight (its backoff wait
\* included), and a step adds at most one timer.
PollIsSingleTimerLoop ==
    /\ [](Len(timers) + Len(inflight) <= 1)
    /\ [][Len(timers') <= Len(timers) + 1]_vars

\* the third poll failed and left its retry timer as the only activity
PollSingleLoopWitness ==
    /\ Len(timers) = 1 /\ inflight = <<>>
    /\ pollHist.polls = 3
    /\ pollHist.scheduled.after = "error"

\* C6 as claimed: the promise resolves only with a status that is 'completed'; a
\* status 'error' rejects it with the status's error text, or 'Job failed';
\* 'queued' and 'processing' leave it pending; it is settled at most once,
\* and once it is settled nothing is scheduled or requested any more.
PollSettlesOnTerminalStatus ==
    /\ [](/\ poll.promise = "resolved" =>
                (poll.value.status = "completed" /\ poll.value = pollHist.lastResponse)
          /\ pollHist.lastResponse.status = "completed" => poll.promise = "resolved"
          /\ pollHist.lastResponse.status = "error" =>
                /\ poll.promise = "rejected"
                /\ poll.reason =
                      NewError(<<IF pollHist.lastResponse.error \in {Undefined, ""}
                                 THEN "Job failed"
                                 ELSE pollHist.lastResponse.error>>)
          /\ pollHist.lastResponse.status \in {"queued", "processing"} =>
                poll.promise = "pending"
          /\ pollHist.settleCalls <= 1
          /\ poll.promise # "pending" =>
                (pollHist.settleCalls = 1 /\ timers = <<>> /\ inflight = <<>>))
    /\ [][poll.promise # "pending" =>
             (poll' = poll /\ timers' = <<>> /\ inflight' = <<>>
              /\ pollHist'.polls = pollHist.polls)]_vars

\* C7: the fetches issued since the last successful status response (or
\* since the start) never exceed 9: 3 fetches for each of 3 failed calls.
PollFetchesAreCapped == pollHist.fetches <= 9

\* three getJobStatus calls in a row used up their three fetches each
PollFetchesWitness ==
    /\ pollHist.fetches = 9
    /\ ThresholdRejected
    /\ pollHist.polls > 3

\* C13 as claimed: a successful getJobStatus response resets consecutiveErrors to 0:
\* the count is the number of calls that failed since the last success and
\* stays in 0..3, so failures that never come 3 in a row never cause the
\* threshold rejection, however many there are.
PollResetsErrorCount ==
    /\ poll.consecutiveErrors \in 0..3
    /\ poll.consecutiveErrors = pollHist.failStreak
    /\ pollHist.lastResponse # NoBody => poll.consecutiveErrors = 0
    /\ pollHist.failStreak < 3 => ~ThresholdRejected

\* C14: after the k-th consecutive polling error (a failed getJobStatus
\* call, or a throw of onProgress, which poll() counts alike), k < 3, the
\* next poll is
\* scheduled after min(intervalMs * 2^k, 30000) ms: 4000 then 8000 ms for
\* intervalMs = 2000, never more than 30000 ms, and not less than after the
\* error before.
PollBackoffIsCapped ==
    /\ [](pollHist.scheduled.after = "error" =>
             /\ pollHist.errStreak \in {1, 2}
             /\ pollHist.scheduled.delay =
                   Min(poll.intervalMs * (2 ^ pollHist.errStreak), 30000)
             /\ pollHist.scheduled.delay <= 30000
             /\ poll.intervalMs = 2000 =>
                   pollHist.scheduled.delay = (IF pollHist.errStreak = 1 THEN 4000 ELSE 8000))
    /\ [][(/\ pollHist.scheduled.after = "error"
           /\ pollHist'.scheduled.after = "error"
           /\ pollHist'.errStreak = pollHist.errStreak + 1) =>
             pollHist'.scheduled.delay >= pollHist.scheduled.delay]_vars

\* the second error in a row of a call with intervalMs = 12000: the delay
\* of 48000 ms is cut to 30000 ms
PollBackoffWitness ==
    /\ poll.intervalMs = 12000
    /\ pollHist.errStreak = 2
    /\ pollHist.scheduled = [after |-> "error", delay |-> 30000]
    /\ timers = <<30000>>

\* C15: a supplied onProgress is called exactly once for each successful
\* status response, the terminal ones included, before the promise is
\* resolved or rejected for that response, and never for a failed request.
PollReportsProgress ==
    /\ pollHist.progressCalls = (IF poll.onProgress THEN pollHist.successes ELSE 0)
    /\ Count(pollHist.lastEffects, {"onProgress"}) =
          (IF poll.onProgress /\ pollHist.lastResponse # NoBody THEN 1 ELSE 0)
    /\ \A i \in 1..Len(pollHist.lastEffects) :
          pollHist.lastEffects[i] = "onProgress" => i = 1

\* the third response, after a failed request, was 'error': onProgress was
\* called for it, then reject
PollReportsProgressWitness ==
    /\ poll.onProgress
    /\ pollHist.lastEffects = <<"onProgress", "reject">>
    /\ pollHist.progressCalls = 3
    /\ pollHist.polls = 4
    /\ poll.promise = "rejected"

----------------------------------------------------------------------------
(* Claims about the pages, checked under SpecUpload and SpecResults *)

\* C9 as claimed: a processing run of the Upload page that reaches the
\* success notification was preceded by a call of the API client's upload.
UploadRunInvokesApi ==
    upload.toast = "success" =>
        \E k \in 1..Len(apiLog) : apiLog[k] \in {"uploadFiles", "processFiles"}

\* C10: for a jobId the Results page requests getJobStatus first and
\* getJobResults only after that status request returned 'completed'; for a
\* status 'error', a status not yet completed or a failed status request,
\* getJobResults is never requested and an error message is set.
ResultsFetchOrder ==
    /\ \A i \in 1..Len(results.loads) :
          LET load == results.loads[i] IN
          /\ load.calls \in {<<>>, <<"getJobStatus">>, <<"getJobStatus", "getJobResults">>}
          /\ (load.jobId # Null) = (load.calls # <<>>)
          /\ Len(load.calls) = 2 => load.status = "completed"
          /\ (load.pc = "done" /\ load.status # "completed") =>
                /\ load.calls = <<"getJobStatus">>
                /\ results.error # Null
    /\ Len(results.loads) = 1 =>
          LET load == results.loads[1] IN
          /\ apiLog = load.calls
          /\ (load.pc = "done" /\ load.status # "completed") =>
                /\ results.results = NoBody
                /\ load.status = "error" => results.error[1] = "Processing failed:"
                /\ load.status \in {"queued", "processing"} =>
                      results.error = <<"Processing not yet completed">>
                /\ load.status = "" => results.error[1] = "Failed to load results:"

\* the status request returned 'processing': no results request, an error
ResultsFetchOrderWitness ==
    /\ Len(results.loads) = 1
    /\ results.loads[1].pc = "done"
    /\ results.jobStatus.status = "processing"
    /\ results.error = <<"Processing not yet completed">>
    /\ apiLog = <<"getJobStatus">>

----------------------------------------------------------------------------
(* Claims about processFiles, checked under SpecProcess *)

\* C11: processFiles uploads and then waits for completion: no status
\* request is issued before the upload has succeeded; a failed upload throws
\* its error and polling never starts; the call returns only when polling
\* resolved with a 'completed' status that carries results, and throws 'No
\* results available' when the completed status carries none.
ProcessUploadsThenPolls ==
    LET out == ProcessAfterPoll(proc, poll) IN
    /\ (poll.started \/ pollHist.polls > 0 \/ inflight # <<>> \/ timers # <<>>) =>
          (proc.pc = "poll" /\ proc.upload.phase = "returned")
    /\ proc.upload.phase = "thrown" =>
          /\ ~poll.started /\ pollHist.polls = 0 /\ inflight = <<>> /\ timers = <<>>
          /\ out.state = "thrown"
          /\ out.error = proc.upload.error
    /\ out.state = "returned" =>
          /\ poll.promise = "resolved"
          /\ poll.value.status = "completed"
          /\ poll.value.results
          /\ out.results
    /\ (poll.promise = "resolved" /\ ~poll.value.results) =>
          /\ out.state = "thrown"
          /\ out.error = NewError(<<"No results available">>)

\* the upload succeeded, the second poll returned 'completed' without
\* results
ProcessNoResultsWitness ==
    /\ proc.pc = "poll"
    /\ poll.promise = "resolved"
    /\ ~poll.value.results
    /\ pollHist.polls = 2
    /\ ProcessAfterPoll(proc, poll).error = NewError(<<"No results available">>)

----------------------------------------------------------------------------
(* Claims about termination, checked under SpecPollFair *)

\* C12 as claimed: if every fetch returns or fails, every timer fires and the job
\* becomes 'completed' or 'error' and stays so, the promise of pollJobStatus
\* is eventually resolved or rejected.
PollEventuallySettles == poll.started ~> poll.promise # "pending"

----------------------------------------------------------------------------
(* Claims about the Upload page, checked under SpecUpload *)

\* C16 as claimed: when a processing run has finished (isProcessing is false
\* again and 'All files processed successfully!' is the notification shown),
\* every file in the list has status 'completed', whatever was dropped
\* during the run.
UploadRunCompletesAllFiles ==
    (upload.toast = "success" /\ ~upload.isProcessing) =>
        \A k \in 1..Len(upload.files) : upload.files[k].status = "completed"

\* the ids of the files in a list
FileIds(files) == {files[k].id : k \in 1..Len(files)}

\* C17: while isProcessing is true Start, the remove buttons and Clear All
\* are disabled: isProcessing is true exactly while a run is active, a step
\* taken during a run keeps every file of the list and never replaces the
\* run by a new one, and the list shrinks only when isProcessing is false.
UploadControlsLockedDuringRun ==
    /\ [](upload.isProcessing <=> upload.run.active)
    /\ [](upload.isProcessing => ~StartEnabled(upload) /\ ~RemoveEnabled(upload))
    /\ [][upload.isProcessing =>
            /\ FileIds(upload.files) \subseteq FileIds(upload'.files)
            /\ Len(upload'.files) >= Len(upload.files)
            /\ upload'.run.active =>
                  /\ upload'.run.files = upload.run.files
                  /\ upload'.run.i >= upload.run.i
                  /\ upload'.run.i = upload.run.i =>
                        upload'.run.progress >= upload.run.progress]_vars

\* a run of two files has reached its second file, and a third file was
\* dropped during the run
UploadControlsLockedWitness ==
    /\ upload.isProcessing
    /\ Len(upload.run.files) = 2
    /\ upload.run.i = 1
    /\ Len(upload.files) = 3
    /\ upload.files[3].status = "pending"

\* the positions of the list whose file is shown as 'uploading'
Uploading(files) == {k \in 1..Len(files) : files[k].status = "uploading"}

\* C18: files are processed one at a time in list order: at most one file
\* is 'uploading' (none outside a run); during a run it is file i+1 of the
\* run, and files 1..i of the run are 'completed' with progress 100.
UploadOneFileAtATime ==
    /\ Cardinality(Uploading(upload.files)) <= 1
    /\ ~upload.run.active => Uploading(upload.files) = {}
    /\ upload.run.active =>
          /\ upload.run.i < Len(upload.run.files)
          /\ \A k \in 1..Len(upload.files) :
                LET f == upload.files[k] IN
                /\ f.status = "uploading" <=> f.id = upload.run.files[upload.run.i + 1].id
                /\ \A j \in 1..upload.run.i :
                      f.id = upload.run.files[j].id =>
                          f.status = "completed" /\ f.progress = 100
          /\ \A j \in 1..Len(upload.run.files) :
                upload.run.files[j].id \in FileIds(upload.files)

\* the second file of a run is half way while the first is completed
UploadOneFileAtATimeWitness ==
    /\ upload.run.active
    /\ upload.run.i = 1
    /\ Len(upload.files) >= 2
    /\ upload.files[1].status = "completed" /\ upload.files[1].progress = 100
    /\ upload.files[2].status = "uploading" /\ upload.files[2].progress = 50

----------------------------------------------------------------------------
(* Claims about the Results page, checked under SpecResults *)

\* C19: opened without a jobId, the Results page sets the error 'No job ID
\* provided' and loading to false, calls neither getJobStatus nor
\* getJobResults, and shows the error view, which has no download button:
\* no downloadModel call is ever made.  Every run of the effect without a
\* jobId sets the error and loading and calls nothing, and while jobId is
\* null the error view is shown.
ResultsWithoutJobId ==
    /\ (results.mounted /\ results.jobId = Null) =>
          /\ results.loads[Len(results.loads)] = NoLoad
          /\ results.error # Null
          /\ ~results.loading
          /\ View(results) = "error"
          /\ ~DownloadEnabled(results)
    /\ (results.mounted /\ results.loads[1].jobId = Null) =>
          /\ results.loads[1] = NoLoad
          /\ View(results) = "error"
          /\ results.downloads = 0
          /\ results.downloading = <<>>
          /\ results.toast = Null
          /\ Len(results.loads) = 1 =>
                /\ results.error = <<"No job ID provided">>
                /\ apiLog = <<>>

\* the page was opened without a jobId and its effect has run
ResultsWithoutJobIdWitness ==
    /\ results.mounted
    /\ results.jobId = Null
    /\ results.loads = <<NoLoad>>
    /\ results.error = <<"No job ID provided">>

\* a loadResults call has finished
LoadFinished(v) == \E i \in 1..Len(v.loads) : v.loads[i].pc \in {"none", "done"}

\* C20, checked under SpecResultsFair: once the page is mounted loading
\* eventually becomes false, on every path of loadResults, and loading is
\* never true after loadResults has finished.
ResultsLoadingEnds ==
    /\ [](LoadFinished(results) => ~results.loading)
    /\ results.mounted ~> ~results.loading

\* the status was 'completed' and the results request failed after its
\* retries: loadResults has finished in its catch block
ResultsLoadingEndsWitness ==
    /\ Len(results.loads) = 1
    /\ results.loads[1].pc = "done"
    /\ ~results.loading
    /\ apiLog = <<"getJobStatus", "getJobResults">>
    /\ results.jobStatus.status = "completed"
    /\ results.error = <<"Failed to load results:", "Failed to fetch">>

\* C21: the main view (loading false and error null) is shown only when
\* results is non-null and the fetched job status was 'completed': what it
\* shows as processingInfo are the values of the results object, with 0 and
\* 'N/A' for a missing field, never the 'Loading...' mock values; for a
\* single load the view is reached after getJobStatus and getJobResults.
ResultsMainViewHasResults ==
    View(results) = "main" =>
        /\ results.mounted /\ results.jobId # Null
        /\ results.results \in AnalysisResults
        /\ results.jobStatus.status = "completed"
        /\ \E i \in 1..Len(results.loads) :
              /\ results.loads[i].pc = "done"
              /\ results.loads[i].calls = <<"getJobStatus", "getJobResults">>
        /\ Len(results.loads) = 1 => apiLog = <<"getJobStatus", "getJobResults">>
        /\ ProcessingInfo(results).processingTime \in {"N/A", "3.2s"}
        /\ ProcessingInfo(results).totalSlices =
              (IF results.results.total_slices = Null THEN 0
               ELSE results.results.total_slices[1])

\* the status was 'completed' and the results were fetched: the main view
\* shows the values of a results object that has no processing_time
ResultsMainViewWitness ==
    /\ View(results) = "main"
    /\ results.results.total_slices = <<100>>
    /\ results.results.processing_time = Undefined
    /\ results.jobStatus.status = "completed"
    /\ ProcessingInfo(results) = [totalSlices |-> 100, processingTime |-> "N/A"]

====
